---- MODULE Spec2Model ----
(***************************************************************************)
(* Mail classifier: the batch queue of the App component (the Queue Store, *)
(* the sequential engine startEngine, the import and upload handlers) and  *)
(* the result mapping of analyzeMailItem.                                  *)
(*                                                                         *)
(* The repository holds two revisions of the App component:                *)
(*   app = "src"   src/App.tsx                                             *)
(*   app = "root"  src/unnamed/part_000                                    *)
(* and two revisions of analyzeMailItem:                                   *)
(*   svc = "v1"    src/components/ActionSummary.tsx (lines 473-602)        *)
(*   svc = "v2"    src/unnamed/part_002                                    *)
(* Both are modelled; the variable app / svc selects the revision.         *)
(*                                                                         *)
(* React state: setItems(prev => ...) updaters are applied in call order,  *)
(* so `items` is the state all queued updaters produce.  The commit of a   *)
(* render and its effects (itemsRef.current = items, the engine trigger)   *)
(* is the separate action Render: the engine reads itemsRef, a snapshot.   *)
(***************************************************************************)
EXTENDS Integers, Sequences, FiniteSets, TLC

\* ---------------------------------------------------------------- bounds
MaxOps == 2
MaxItems == 3
MaxRuns == 2

\* ------------------------------------------------------------- constants
DriveFiles == {1, 2}
Listings == {<<>>, <<1>>, <<1, 2>>}
LocalNames == {7}
None == 0

IDLE == "idle"
ANALYZING == "analyzing"
SUCCESS == "success"
ERROR == "error"
NEEDS_REVIEW == "needs_manual_review"

FORWARD_AYR == "FORWARD_AYR"
FORWARD_OZ == "FORWARD_OZ"
DIGITAL_STORE == "DIGITAL_STORE"
DIGITAL_STORE_ACTION == "DIGITAL_STORE_ACTION"
SHRED == "SHRED"
TBC == "TBC"

VARIABLES app, items, itemsRef, dirty, processingId, engineActive, pc, next,
          mustRender, imports, sourceConfig, connecting, startVisible,
          nextId, ops, loops, rejected, base64,
          svc, mpc, rec, classification, preOverride,
          mime, cpc, attempt, ncalls, sleeps, fails, outcome, timers,
          sourceListing, added,
          fname, postboxRef, doc, ipc, cleanRef, itemId, suggested, pass, first

vars == <<app, items, itemsRef, dirty, processingId, engineActive, pc, next,
          mustRender, imports, sourceConfig, connecting, startVisible,
          nextId, ops, loops, rejected, base64,
          svc, mpc, rec, classification, preOverride,
          mime, cpc, attempt, ncalls, sleeps, fails, outcome, timers,
          sourceListing, added,
          fname, postboxRef, doc, ipc, cleanRef, itemId, suggested, pass, first>>

queueVars == <<app, items, itemsRef, dirty, processingId, engineActive, pc, next,
               mustRender, imports, sourceConfig, connecting, startVisible,
               nextId, ops, loops, rejected, base64>>

mapperVars == <<svc, mpc, rec, classification, preOverride>>

\* timers: the phaseInterval timers of this call that were set and not
\* cleared.
clientVars == <<mime, cpc, attempt, ncalls, sleeps, fails, outcome, timers>>

\* The listing an import run is given and the number of items each
\* completed run appended.
mergeVars == <<sourceListing, added>>

\* The identifier reconciler and file name of analyzeMailItem's map callback:
\* metadata.filename, result.ukpostbox_ref, the other fields the suggested
\* file name is built from, and the outputs; `pass` and `first` record a
\* first application when the callback is applied twice.
idVars == <<fname, postboxRef, doc, ipc, cleanRef, itemId, suggested, pass, first>>

serviceVars == <<mapperVars, clientVars, mergeVars, idVars>>

appVars == <<queueVars, mergeVars, idVars>>

\* ------------------------------------------------------------ BatchItem
\* runs, calls, ahead and late are bookkeeping for the properties: how often
\* the item was set analyzing / handed to the extraction client since it
\* became idle, the ids that were idle when it was appended during an
\* analysis, and whether the engine was active when it was appended.
BatchItem(id, drive, name, ahead) ==
    [id |-> id, drive |-> drive, name |-> name, status |-> IDLE,
     msg |-> "none", hasRes |-> FALSE, res |-> <<>>, err |-> "none",
     runs |-> 0, calls |-> 0, ahead |-> ahead, late |-> engineActive]

NoItem == [id |-> None, drive |-> None, name |-> None]

Terminal(s) == s \in {SUCCESS, ERROR, NEEDS_REVIEW}

Idx(its) == 1..Len(its)

HasIdle(its) == \E k \in Idx(its) : its[k].status = IDLE

\* Array.prototype.find: the first element that is idle, or NoItem.
FirstIdleIdx(its) ==
    IF HasIdle(its)
    THEN CHOOSE k \in Idx(its) :
            /\ its[k].status = IDLE
            /\ \A j \in 1..(k - 1) : its[j].status # IDLE
    ELSE 0

FindIdle(its) ==
    IF FirstIdleIdx(its) = 0 THEN NoItem
    ELSE LET i == its[FirstIdleIdx(its)]
         IN [id |-> i.id, drive |-> i.drive, name |-> i.name]

\* prev.map(i => i.id === id ? f(i) : i)
MapById(its, id, F(_)) ==
    [k \in Idx(its) |-> IF its[k].id = id THEN F(its[k]) ELSE its[k]]

\* prev.filter(i => i.id !== id)
RECURSIVE FilterOut(_, _)
FilterOut(its, id) ==
    IF its = <<>> THEN <<>>
    ELSE IF Head(its).id = id THEN FilterOut(Tail(its), id)
         ELSE <<Head(its)>> \o FilterOut(Tail(its), id)

IdleIds(its) == {its[k].id : k \in {j \in Idx(its) : its[j].status = IDLE}}

\* Ids queued idle when an item is appended while some item is analyzing
\* (bookkeeping for the ordering property; not program state).
AheadOf(its) ==
    IF \E k \in Idx(its) : its[k].status = ANALYZING THEN IdleIds(its) ELSE {}

\* An item that leaves idle is no longer ahead of anyone.
Settle(old, new) ==
    LET left == {i \in IdleIds(old) : i \notin IdleIds(new)}
    IN [k \in Idx(new) |-> [new[k] EXCEPT !.ahead = @ \ left]]

\* --------------------------------------------------- result mapping
\* Variant of the fallback that is not idempotent: it takes back a routing to
\* Ayr that it finds on an urgent record.
FallbackRoutingToggle(v, r) ==
    IF v = "v2" /\ r.importance \in {"HIGH_FORWARD", "CRITICAL_FORWARD"} /\ r.urgentDoc
    THEN IF r.routing = "unknown" THEN "forward_to_ayr"
         ELSE IF r.routing = "forward_to_ayr" THEN "unknown"
         ELSE r.routing
    ELSE r.routing

\* analyzeMailItem, "Fallback Routing Logic": routing as the ladder reads it.
FallbackRouting(v, r) ==
    IF /\ v = "v2"
       /\ r.routing = "unknown"
       /\ r.importance \in {"HIGH_FORWARD", "CRITICAL_FORWARD"}
       /\ r.urgentDoc
    THEN "forward_to_ayr"
    ELSE r.routing

\* Variant of the chain that tests auto_action before routing.
LadderActionFirst(routing, autoAction, importance) ==
    IF autoAction = "archive_digital" THEN DIGITAL_STORE
    ELSE IF routing = "forward_to_ayr" THEN FORWARD_AYR
    ELSE IF routing = "forward_to_oz" THEN FORWARD_OZ
    ELSE IF importance = "DIGITAL_ONLY" THEN SHRED
    ELSE TBC

\* Variant of the chain without the DIGITAL_ONLY arm.
LadderNoShred(routing, autoAction, importance) ==
    IF routing = "forward_to_ayr" THEN FORWARD_AYR
    ELSE IF routing = "forward_to_oz" THEN FORWARD_OZ
    ELSE IF autoAction = "archive_digital" THEN DIGITAL_STORE
    ELSE TBC

\* The if / else-if chain over routing, auto_action and importance.
Ladder(routing, autoAction, importance) ==
    IF routing = "forward_to_ayr" THEN FORWARD_AYR
    ELSE IF routing = "forward_to_oz" THEN FORWARD_OZ
    ELSE IF autoAction = "archive_digital" THEN DIGITAL_STORE
    ELSE IF importance = "DIGITAL_ONLY" THEN SHRED
    ELSE TBC

\* Variant of the override that also escalates a forwarding class.
OverrideAll(importance, c) ==
    IF importance \in {"CRITICAL_FORWARD", "HIGH_FORWARD"}
    THEN DIGITAL_STORE_ACTION
    ELSE c

\* The importance override applied after the chain.
Override(importance, c) ==
    IF /\ importance \in {"CRITICAL_FORWARD", "HIGH_FORWARD"}
       /\ c # FORWARD_AYR
       /\ c # FORWARD_OZ
    THEN DIGITAL_STORE_ACTION
    ELSE c

Classify(v, r) ==
    Override(r.importance, Ladder(FallbackRouting(v, r), r.auto_action, r.importance))

RawRecord(routing, autoAction, importance, urgentDoc) ==
    [routing |-> routing, auto_action |-> autoAction,
     importance |-> importance, urgentDoc |-> urgentDoc]

\* Service responses the engine model draws from: parsed.analysis_results.
Responses ==
    {<<RawRecord("forward_to_ayr", "batch_tag_forward", "HIGH_FORWARD", FALSE)>>,
     <<RawRecord("unknown", "human_review_queue", "ROUTINE_OPTIONAL", FALSE)>>}

MapResults(v, resp) == [k \in 1..Len(resp) |-> Classify(v, resp[k])]

\* ------------------------------------------------------ engine
\* setItems(updater): the updater is applied; a render is now pending.
SetItems(new) ==
    /\ items' = Settle(items, new)
    /\ dirty' = TRUE

ToAnalyzing(i) ==
    [i EXCEPT !.status = ANALYZING, !.msg = "text", !.runs = @ + 1]

\* Variant without the re-entrancy guard.
EngineGuardOpen(active) == TRUE

\* if (engineActiveRef.current) return;
EngineGuard(active) == ~active

\* One pass of the head of the while loop: find the next idle item in the
\* snapshot `ref`; break (and leave the loop) or mark it analyzing and
\* suspend at the content read.  `l` is the number of loops executing.
LoopHead(ref, l) ==
    LET n == FindIdle(ref) IN
    IF n = NoItem
    THEN /\ processingId' = None
         /\ engineActive' = FALSE
         /\ pc' = "off"
         /\ next' = NoItem
         /\ loops' = l - 1
         /\ mustRender' = FALSE
         /\ base64' = "none"
         /\ UNCHANGED <<items, dirty>>
    ELSE /\ processingId' = n.id
         /\ engineActive' = TRUE
         /\ SetItems(MapById(items, n.id, ToAnalyzing))
         /\ pc' = "fetch"
         /\ next' = n
         /\ loops' = l
         /\ mustRender' = FALSE
         /\ base64' = "none"

\* startEngine(): the guard, then the loop up to its first suspension.
StartEngine(ref) ==
    IF EngineGuard(engineActive)
    THEN LoopHead(ref, loops + 1) /\ UNCHANGED rejected
    ELSE /\ rejected' = TRUE
         /\ UNCHANGED <<items, dirty, processingId, engineActive, pc, next,
                        loops, mustRender, base64>>

\* Variant of the commit whose trigger effect is missing.
RenderNoTrigger ==
    /\ dirty
    /\ itemsRef' = items
    /\ startVisible' = (app = "root" /\ ~engineActive /\ HasIdle(items))
    /\ dirty' = FALSE
    /\ mustRender' = FALSE
    /\ UNCHANGED <<items, processingId, engineActive, pc, next, loops, rejected, base64>>
    /\ UNCHANGED <<app, imports, sourceConfig, connecting, nextId, ops>>
    /\ UNCHANGED serviceVars

\* Commit of a render with changed items, and its effects in order:
\* itemsRef.current = items; then the engine trigger.
Render ==
    /\ dirty
    /\ itemsRef' = items
    /\ startVisible' = (app = "root" /\ ~engineActive /\ HasIdle(items))
    /\ IF HasIdle(items) /\ ~engineActive
       THEN StartEngine(items)
       ELSE /\ dirty' = FALSE
            /\ mustRender' = FALSE
            /\ UNCHANGED <<items, processingId, engineActive, pc, next, loops, rejected, base64>>
    /\ UNCHANGED <<app, imports, sourceConfig, connecting, nextId, ops>>
    /\ UNCHANGED serviceVars

\* Variants of the write-backs: one that stores the results but leaves the
\* status alone, one that puts a failed item back in the queue.
WriteSuccessStuck(i, results) == [i EXCEPT !.hasRes = TRUE, !.res = results]

WriteErrorRequeue(i, message) == [i EXCEPT !.status = IDLE]

\* The terminal write-backs of the try / catch.
WriteSuccess(i, results) ==
    IF app = "root"
    THEN [i EXCEPT !.status = IF \E k \in 1..Len(results) : results[k] = TBC
                              THEN NEEDS_REVIEW ELSE SUCCESS,
                   !.hasRes = TRUE, !.res = results, !.msg = "none"]
    ELSE [i EXCEPT !.status = SUCCESS, !.hasRes = TRUE, !.res = results]

WriteError(i, message) ==
    IF app = "root"
    THEN [i EXCEPT !.status = ERROR, !.err = message, !.msg = "none"]
    ELSE [i EXCEPT !.status = ERROR, !.err = message]

\* Variant of the end of an iteration that selects again without sleeping.
ToPaceSkipped ==
    /\ pc' = "fetch"
    /\ next' = FindIdle(itemsRef)
    /\ mustRender' = TRUE
    /\ UNCHANGED <<itemsRef, processingId, engineActive, loops, rejected,
                   app, imports, sourceConfig, connecting, startVisible, nextId, ops>>
    /\ UNCHANGED serviceVars

\* The pacing sleep begins right after a write-back: the render that
\* write-back scheduled is committed before the timer of seconds fires.
ToPace ==
    /\ pc' = "pace"
    /\ next' = NoItem
    /\ mustRender' = TRUE
    /\ UNCHANGED <<itemsRef, processingId, engineActive, loops, rejected,
                   app, imports, sourceConfig, connecting, startVisible, nextId, ops>>
    /\ UNCHANGED serviceVars

\* What the content read can resolve to.
Contents == {"bytes", "empty"}

\* if (!base64Content) throw new Error("File content is empty."): part_000
\* only; src/App.tsx passes whatever the read resolved to.
ContentAccepted(a, c) == a = "src" \/ c # "empty"

\* Content resolved: analyzeMailItem is called for the item.
ContentOk ==
    /\ pc = "fetch"
    /\ pc' = "analyze"
    /\ \E c \in Contents : ContentAccepted(app, c) /\ base64' = c
    /\ LET F(i) == [i EXCEPT !.calls = @ + 1]
       IN items' = MapById(items, next.id, F)
    /\ UNCHANGED dirty
    /\ UNCHANGED <<itemsRef, processingId, engineActive, next, loops, rejected,
                   mustRender, app, imports, sourceConfig, connecting,
                   startVisible, nextId, ops>>
    /\ UNCHANGED serviceVars

\* getFileBase64 / FileReader rejects ("failed"), or the content is empty
\* and is refused.
ContentFail ==
    /\ pc = "fetch"
    /\ \E c \in {"failed"} \cup {e \in Contents : ~ContentAccepted(app, e)} : base64' = c
    /\ LET F(i) == WriteError(i, "io") IN SetItems(MapById(items, next.id, F))
    /\ ToPace

\* The progress callback: onStatusUpdate(msg).
Progress ==
    /\ pc = "analyze"
    /\ LET F(i) == [i EXCEPT !.msg = "text"] IN SetItems(MapById(items, next.id, F))
    /\ UNCHANGED <<itemsRef, processingId, engineActive, pc, next, loops, rejected, base64,
                   mustRender, app, imports, sourceConfig, connecting,
                   startVisible, nextId, ops>>
    /\ UNCHANGED serviceVars

\* analyzeMailItem returns (after zero or more failed attempts).
AnalyzeOk ==
    /\ pc = "analyze"
    /\ \E resp \in Responses, v \in {"v1", "v2"} :
         LET F(i) == WriteSuccess(i, MapResults(v, resp))
         IN SetItems(MapById(items, next.id, F))
    /\ UNCHANGED base64
    /\ ToPace

\* analyzeMailItem throws.
AnalyzeFail ==
    /\ pc = "analyze"
    /\ LET F(i) == WriteError(i, "analysis") IN SetItems(MapById(items, next.id, F))
    /\ UNCHANGED base64
    /\ ToPace

\* The items whose extraction call has ended.  part_002 clears the
\* phaseInterval timer of an attempt only after generateContent resolved
\* (line 130): the timer of an attempt that threw is still set when the call
\* returns or throws, and may have phases left to report.
CallEnded(i) == Terminal(i.status) /\ i.calls > 0

\* A timer that outlived its call fires: onStatusUpdate(statusPhases[phaseIdx])
\* runs the callback the engine passed for that item.  A firing that finds
\* the item with a message already (src/App.tsx never clears it) only
\* re-renders the same queue and is left out.
LateProgress ==
    /\ \E k \in Idx(items) :
         /\ CallEnded(items[k])
         /\ items[k].msg = "none"
         /\ LET F(i) == [i EXCEPT !.msg = "text"]
            IN SetItems(MapById(items, items[k].id, F))
    /\ UNCHANGED <<itemsRef, processingId, engineActive, pc, next, loops, rejected, base64,
                   mustRender, app, imports, sourceConfig, connecting,
                   startVisible, nextId, ops>>
    /\ UNCHANGED serviceVars

\* The pacing timer fires: back to the head of the loop.
PaceEnd ==
    /\ pc = "pace"
    /\ ~mustRender
    /\ LoopHead(itemsRef, loops)
    /\ UNCHANGED <<itemsRef, rejected, app, imports, sourceConfig, connecting,
                   startVisible, nextId, ops>>
    /\ UNCHANGED serviceVars

\* ------------------------------------------------------ user actions
EngineFrame ==
    UNCHANGED <<processingId, engineActive, pc, next, loops, rejected, mustRender, base64>>

DriveIds(its) == {its[k].drive : k \in Idx(its)}

Names(its) == {its[k].name : k \in Idx(its)}

\* Math.random().toString(36).substr(2, 9): an id no other item has.
FreshId(n) == 100 + n

\* handleFilesAdd: one local file is appended.  In src/App.tsx the upload
\* control is rendered only while the rendered queue is empty.
UploadFiles ==
    /\ ops < MaxOps
    /\ Len(items) < MaxItems
    /\ app = "src" => Len(itemsRef) = 0
    /\ \E name \in LocalNames :
         SetItems(Append(items, BatchItem(FreshId(nextId), None, name, AheadOf(items))))
    /\ nextId' = nextId + 1
    /\ ops' = ops + 1
    /\ EngineFrame
    /\ UNCHANGED <<app, itemsRef, imports, sourceConfig, connecting, startVisible>>
    /\ UNCHANGED serviceVars

\* A listing request in flight: the kind of source, the remote ids of the
\* items the handler closed over (src/App.tsx), and whether the caller reset
\* the queue before it started the request (handleConnectDrive /
\* handleConnectLocal of part_000).
ImportRun(kind, seen, reset) == [kind |-> kind, seen |-> seen, reset |-> reset]

\* handleImportFromDrive up to `await listFilesInFolder`: the handler closes
\* over the items of the render it was created in.
ImportClick ==
    /\ app = "src"
    /\ sourceConfig = "drive"
    /\ ops < MaxOps
    /\ imports' = Append(imports, ImportRun("drive", DriveIds(itemsRef) \ {None}, FALSE))
    /\ ops' = ops + 1
    /\ EngineFrame
    /\ UNCHANGED <<app, items, itemsRef, dirty, sourceConfig, connecting, startVisible, nextId>>
    /\ UNCHANGED serviceVars

RECURSIVE SelectNew(_, _)
\* files.filter(f => !existing.has(key(f)))
SelectNew(listing, existing) ==
    IF listing = <<>> THEN <<>>
    ELSE IF Head(listing) \in existing THEN SelectNew(Tail(listing), existing)
         ELSE <<Head(listing)>> \o SelectNew(Tail(listing), existing)

\* Variant of the import that compares the listing with nothing.
ExistingKeysNone(imp) == {}

\* The keys an import compares the listing with.
ExistingKeys(imp) ==
    IF app = "src" THEN imp.seen
    ELSE IF imp.kind = "drive" THEN DriveIds(itemsRef)
         ELSE Names(itemsRef)

\* Variant of the import that builds the items last file first.
NewItemsReversed(imp, new, ahead) ==
    [k \in 1..Len(new) |->
        IF imp.kind = "drive"
        THEN BatchItem(IF app = "src" THEN FreshId(nextId + k - 1) ELSE new[Len(new) + 1 - k],
                       new[Len(new) + 1 - k], new[Len(new) + 1 - k], ahead)
        ELSE BatchItem(FreshId(nextId + k - 1), None, new[Len(new) + 1 - k], ahead)]

\* The items an import builds from the new files, in listing order.
NewItems(imp, new, ahead) ==
    [k \in 1..Len(new) |->
        IF imp.kind = "drive"
        THEN BatchItem(IF app = "src" THEN FreshId(nextId + k - 1) ELSE new[k],
                       new[k], new[k], ahead)
        ELSE BatchItem(FreshId(nextId + k - 1), None, new[k], ahead)]

RemoveAt(s, k) == SubSeq(s, 1, k - 1) \o SubSeq(s, k + 1, Len(s))

ListingsOf(imp) ==
    IF imp.kind = "drive" THEN Listings
    ELSE {<<>>} \cup {<<n>> : n \in LocalNames}

\* The listing arrives: the rest of handleImportFromDrive / fetchSourceFiles.
ListingArrives(k, listing) ==
    /\ LET imp == imports[k]
           new == SelectNew(listing, ExistingKeys(imp))
           add == NewItems(imp, new, AheadOf(items))
       IN /\ Len(items) + Len(add) <= MaxItems
          /\ imports' = RemoveAt(imports, k)
          /\ IF app = "src" /\ new = <<>>
             THEN UNCHANGED <<items, dirty>>
             ELSE SetItems(items \o add)
          /\ nextId' = IF app = "src" \/ imp.kind = "local"
                       THEN nextId + Len(add) ELSE nextId
    /\ EngineFrame
    /\ UNCHANGED <<app, itemsRef, sourceConfig, connecting, startVisible, ops>>
    /\ UNCHANGED serviceVars

ImportDone ==
    \E k \in 1..Len(imports) : \E listing \in ListingsOf(imports[k]) :
        ListingArrives(k, listing)

\* listFilesInFolder rejects: the catch branch, nothing is queued.
ImportFail ==
    /\ \E k \in 1..Len(imports) : imports' = RemoveAt(imports, k)
    /\ EngineFrame
    /\ UNCHANGED <<app, items, itemsRef, dirty, sourceConfig, connecting, startVisible,
                   nextId, ops>>
    /\ UNCHANGED serviceVars

\* handleConnectDrive / handleConnectLocal up to the folder picker.
ConnectClick ==
    /\ ops < MaxOps
    /\ connecting = "none"
    /\ sourceConfig = "none"
    /\ app = "root" => Len(itemsRef) = 0
    /\ \E kind \in {"drive", "local"} :
         /\ app = "src" => kind = "drive"
         /\ connecting' = kind
    /\ ops' = ops + 1
    /\ EngineFrame
    /\ UNCHANGED <<app, items, itemsRef, dirty, imports, sourceConfig, startVisible, nextId>>
    /\ UNCHANGED serviceVars

\* A folder was picked: the source is set; part_000 resets the queue and
\* starts fetchSourceFiles.
ConnectDone ==
    /\ connecting # "none"
    /\ connecting' = "none"
    /\ sourceConfig' = connecting
    /\ IF app = "root"
       THEN /\ SetItems(<<>>)
            /\ imports' = Append(imports, ImportRun(connecting, {}, TRUE))
       ELSE UNCHANGED <<items, dirty, imports>>
    /\ EngineFrame
    /\ UNCHANGED <<app, itemsRef, startVisible, nextId, ops>>
    /\ UNCHANGED serviceVars

\* The picker was cancelled or failed.
ConnectCancel ==
    /\ connecting # "none"
    /\ connecting' = "none"
    /\ EngineFrame
    /\ UNCHANGED <<app, items, itemsRef, dirty, imports, sourceConfig, startVisible,
                   nextId, ops>>
    /\ UNCHANGED serviceVars

\* handleDisconnect (part_000 also empties the queue) / handleDisconnectDrive.
Disconnect ==
    /\ ops < MaxOps
    /\ app = "src" => sourceConfig = "drive"
    /\ sourceConfig' = "none"
    /\ IF app = "root" THEN SetItems(<<>>) ELSE UNCHANGED <<items, dirty>>
    /\ ops' = ops + 1
    /\ EngineFrame
    /\ UNCHANGED <<app, itemsRef, imports, connecting, startVisible, nextId>>
    /\ UNCHANGED serviceVars

\* The buttons below are those of the rendered list.
Shown(id, P(_)) == \E k \in Idx(itemsRef) : itemsRef[k].id = id /\ P(itemsRef[k])

ShownIds == {itemsRef[k].id : k \in Idx(itemsRef)}

HasError(i) == i.err # "none"

\* Variant of the retry reset that keeps the error message.
ToIdleKeepError(i) == [i EXCEPT !.status = IDLE, !.runs = 0, !.calls = 0]

\* "Retry Item": {...i, status: 'idle', error: undefined}
ToIdle(i) == [i EXCEPT !.status = IDLE, !.err = "none", !.runs = 0, !.calls = 0]

RetryItem ==
    /\ app = "src"
    /\ ops < MaxOps
    /\ \E id \in ShownIds :
         /\ Shown(id, HasError)
         /\ SetItems(MapById(items, id, ToIdle))
    /\ ops' = ops + 1
    /\ EngineFrame
    /\ UNCHANGED <<app, itemsRef, imports, sourceConfig, connecting, startVisible, nextId>>
    /\ UNCHANGED serviceVars

\* "Discard" of a failed item (src/App.tsx); removeItem of any item (part_000).
RemoveItem ==
    /\ ops < MaxOps
    /\ \E id \in ShownIds :
         /\ app = "src" => Shown(id, HasError)
         /\ SetItems(FilterOut(items, id))
    /\ ops' = ops + 1
    /\ EngineFrame
    /\ UNCHANGED <<app, itemsRef, imports, sourceConfig, connecting, startVisible, nextId>>
    /\ UNCHANGED serviceVars

\* "Start Processing": onClick={startEngine}.
StartButton ==
    /\ app = "root"
    /\ startVisible
    /\ ops < MaxOps
    /\ StartEngine(itemsRef)
    /\ ops' = ops + 1
    /\ UNCHANGED <<app, itemsRef, imports, sourceConfig, connecting, startVisible, nextId>>
    /\ UNCHANGED serviceVars

\* ------------------------------------------- the call analyzeMailItem
\* The allow-list of part_002; the mime types the model calls it with.
SupportedMimes ==
    {"application/pdf", "image/jpeg", "image/png", "image/webp", "image/heic", "image/heif"}

Mimes == {"application/pdf", "IMAGE/PNG", "", " ", "text/plain"}

\* String.prototype.toLowerCase and trim on the mime types above.
Lower(m) == IF m = "IMAGE/PNG" THEN "image/png" ELSE m

Trimmed(m) == IF m = " " THEN "" ELSE m

\* part_002 lines 82-89; ActionSummary.tsx has no check before its loop.
MimeAccepted(v, m) ==
    \/ v = "v1"
    \/ /\ m # ""
       /\ Trimmed(m) # ""
       /\ Lower(m) \in SupportedMimes

\* What a failed attempt throws: error.status (0: none) and whether the
\* message carries the rate-limit text the catch block looks for.
Failure(status, rateMsg) == [status |-> status, rateMsg |-> rateMsg]

Statuses == {0, 400, 401, 429, 502, 503}

Failures == {Failure(st, FALSE) : st \in Statuses} \cup {Failure(0, TRUE)}

IsRateLimit(f) == f.status = 429 \/ f.rateMsg

IsServiceUnavailable(v, f) ==
    IF v = "v1" THEN f.status = 503 \/ f.status = 500
    ELSE f.status >= 500

Retryable(v, f) == IsRateLimit(f) \/ IsServiceUnavailable(v, f)

MaxRetries(v) == IF v = "v1" THEN 6 ELSE 4

RECURSIVE Pow2(_)
Pow2(n) == IF n = 0 THEN 1 ELSE 2 * Pow2(n - 1)

\* Math.random() * 1000 in ActionSummary.tsx; part_002 adds a fixed 3000.
Jitter(v) == IF v = "v1" THEN {0, 999} ELSE {3000}

\* Variant of the backoff without the exponential term.
WaitTimeFlat(v, a, j) == 2000 + j

WaitTime(v, a, j) ==
    IF v = "v1" THEN Pow2(a) * 2000 + j ELSE Pow2(a) * 5000 + j

ClientIdle ==
    /\ mime = "application/pdf"
    /\ cpc = "idle"
    /\ attempt = 0
    /\ ncalls = 0
    /\ sleeps = <<>>
    /\ fails = <<>>
    /\ timers = 0
    /\ outcome = "none"

\* The timers set and not cleared after an attempt threw.  part_002 sets
\* phaseInterval before generateContent and clears it after it resolved (line
\* 130); the catch block does not clear it.  An error without status is
\* thrown by generateContent (timer still set) or, after clearInterval, by the
\* empty-response check or JSON.parse.
TimersAfterThrow(v, f, n) ==
    IF v = "v1" THEN {n}
    ELSE IF f.status = 0 /\ ~f.rateMsg THEN {n, n + 1}
    ELSE {n + 1}

\* The statements before the while loop.
CheckMime ==
    /\ cpc = "check"
    /\ IF MimeAccepted(svc, mime)
       THEN cpc' = "call" /\ UNCHANGED outcome
       ELSE cpc' = "done" /\ outcome' = "error"
    /\ UNCHANGED <<mime, attempt, ncalls, sleeps, fails, timers>>
    /\ UNCHANGED appVars
    /\ UNCHANGED mapperVars

\* generateContent resolves and the results are returned.
CallOk ==
    /\ cpc = "call"
    /\ attempt < MaxRetries(svc)
    /\ ncalls' = ncalls + 1
    /\ outcome' = "ok"
    /\ cpc' = "done"
    /\ UNCHANGED <<mime, attempt, sleeps, fails, timers>>
    /\ UNCHANGED appVars
    /\ UNCHANGED mapperVars

\* The attempt throws: the catch block either starts a backoff sleep or
\* rethrows.
CallFail ==
    /\ cpc = "call"
    /\ attempt < MaxRetries(svc)
    /\ ncalls' = ncalls + 1
    /\ \E f \in Failures :
         /\ fails' = Append(fails, f)
         /\ IF Retryable(svc, f) /\ attempt < MaxRetries(svc) - 1
            THEN /\ \E j \in Jitter(svc) :
                      sleeps' = Append(sleeps, WaitTime(svc, attempt, j))
                 /\ cpc' = "sleep"
                 /\ UNCHANGED outcome
            ELSE /\ outcome' = "error"
                 /\ cpc' = "done"
                 /\ UNCHANGED sleeps
         /\ timers' \in TimersAfterThrow(svc, f, timers)
    /\ UNCHANGED <<mime, attempt>>
    /\ UNCHANGED appVars
    /\ UNCHANGED mapperVars

\* await delay(waitTime); attempt++; continue
Backoff ==
    /\ cpc = "sleep"
    /\ attempt' = attempt + 1
    /\ cpc' = "call"
    /\ UNCHANGED <<mime, ncalls, sleeps, fails, outcome, timers>>
    /\ UNCHANGED appVars
    /\ UNCHANGED mapperVars

MergeIdle ==
    /\ sourceListing = [kind |-> "drive", files |-> <<>>]
    /\ added = <<>>

\* ------------------------------------------- identifier reconciler
\* A file name is modelled by the lengths of its maximal digit runs, in
\* order: "96279_080725-01.pdf" is <<5, 6, 2>>.
RunLens == {2, 5, 6, 8, 10, 14}

Fnames ==
    {<<>>, <<5, 6, 2>>} \cup {<<a>> : a \in RunLens}
        \cup {<<a, b>> : a \in RunLens, b \in RunLens}

\* A piece of text taken as an id: where it comes from ("file", "ref",
\* "gen", or "none" for null), and for a file name the run, the offset in
\* the run and the length; for a reference its length and whether it
\* still holds whitespace; for a generated id the random token.
IdText(from, run, off, len, spaced) ==
    [from |-> from, run |-> run, off |-> off, len |-> len, spaced |-> spaced]

NoId == IdText("none", 0, 0, 0, FALSE)

\* result.ukpostbox_ref as the service returns it: a missing property, a
\* non-string ("object", "number"), digits with or without whitespace, one
\* of the absent tokens, other text, or text that itself begins "GEN-"
\* ("gentext").
RefValue(kind, len, spaced) == [kind |-> kind, len |-> len, spaced |-> spaced]

Refs ==
    {RefValue("missing", 0, FALSE), RefValue("object", 0, FALSE),
     RefValue("number", 6, FALSE), RefValue("digits", 6, TRUE),
     RefValue("digits", 3, TRUE), RefValue("digits", 12, FALSE),
     RefValue("token", 0, FALSE), RefValue("text", 8, FALSE),
     RefValue("gentext", 10, FALSE)}

\* Lines 166-195: quotes stripped, trimmed; digits and whitespace only are
\* compacted when 4 to 9 digits remain; the absent tokens give null.
Sanitize(r) ==
    IF r.kind \in {"missing", "object", "token"} THEN NoId
    ELSE IF r.kind \in {"number", "digits"}
         THEN IF r.len >= 4 /\ r.len <= 9
              THEN IdText("ref", 0, 0, r.len, FALSE)
              ELSE IdText("ref", 0, 0, r.len, r.spaced)
         ELSE IdText("ref", 0, 0, r.len, r.spaced)

\* fname.match(/\d{5,9}/g) inside one run of n digits: greedy matches from
\* the left, each of up to 9 digits, while at least 5 digits remain.
RECURSIVE RunMatches(_, _, _)
RunMatches(i, off, n) ==
    IF n < 5 THEN <<>>
    ELSE LET l == IF n > 9 THEN 9 ELSE n
         IN <<IdText("file", i, off, l, FALSE)>> \o RunMatches(i, off + l, n - l)

RECURSIVE MatchesFrom(_, _)
MatchesFrom(name, i) ==
    IF i > Len(name) THEN <<>>
    ELSE RunMatches(i, 0, name[i]) \o MatchesFrom(name, i + 1)

Candidates(name) == MatchesFrom(name, 1)

\* candidates.find(c => c.length >= 5 && c.length <= 7), else candidates[0]
BestCandidate(cands) ==
    IF \E k \in 1..Len(cands) : cands[k].len >= 5 /\ cands[k].len <= 7
    THEN cands[CHOOSE k \in 1..Len(cands) :
                 /\ cands[k].len >= 5 /\ cands[k].len <= 7
                 /\ \A j \in 1..(k - 1) : ~(cands[j].len >= 5 /\ cands[j].len <= 7)]
    ELSE cands[1]

\* Lines 199-218: the file name overrides the reference.
FromFilename(name, clean) ==
    IF Candidates(name) # <<>> THEN BestCandidate(Candidates(name)) ELSE clean

\* Math.random() tokens of `GEN-...`.
GenTokens == {1, 2}

Docs ==
    {[date |-> d, sender |-> x, recipient |-> y] :
        d \in {"missing", "2024-10-12"}, x \in {"missing", "HMRC"}, y \in {"missing", "Nishant"}}

\* Lines 161-162: `${dateStr} [${sender}] [${recipient_name}]`.
DateStr(d) == IF d = "missing" THEN "00000000" ELSE IF d = "2024-10-12" THEN "20241012" ELSE d

OrUnknown(x) == IF x = "missing" THEN "Unknown" ELSE x

SuggestedFilename(d) == <<DateStr(d.date), OrUnknown(d.sender), OrUnknown(d.recipient)>>

IdIdle ==
    /\ fname = <<>>
    /\ postboxRef = RefValue("missing", 0, FALSE)
    /\ doc = [date |-> "missing", sender |-> "missing", recipient |-> "missing"]
    /\ ipc = "idle"
    /\ cleanRef = NoId
    /\ itemId = NoId
    /\ suggested = <<>>
    /\ pass = 0
    /\ first = <<>>

\* ------------------------------------------------------ specification
MapperIdle ==
    /\ svc = "v2"
    /\ mpc = "idle"
    /\ rec = RawRecord("missing", "missing", "missing", FALSE)
    /\ classification = TBC
    /\ preOverride = TBC

Init ==
    /\ app \in {"src", "root"}
    /\ items = <<>>
    /\ itemsRef = <<>>
    /\ dirty = FALSE
    /\ processingId = None
    /\ engineActive = FALSE
    /\ pc = "off"
    /\ next = NoItem
    /\ mustRender = FALSE
    /\ connecting = "none"
    /\ startVisible = FALSE
    /\ nextId = 0
    /\ ops = 0
    /\ loops = 0
    /\ rejected = FALSE
    /\ base64 = "none"
    \* the saved drive config; part_000 then fetches the folder on mount
    /\ sourceConfig \in {"none", "drive"}
    /\ imports = IF app = "root" /\ sourceConfig = "drive"
                 THEN <<ImportRun("drive", {}, FALSE)>> ELSE <<>>
    /\ MapperIdle
    /\ ClientIdle
    /\ MergeIdle
    /\ IdIdle

Next ==
    \/ Render
    \/ ContentOk
    \/ ContentFail
    \/ Progress
    \/ AnalyzeOk
    \/ AnalyzeFail
    \/ PaceEnd
    \/ UploadFiles
    \/ ImportClick
    \/ ImportDone
    \/ ImportFail
    \/ ConnectClick
    \/ ConnectDone
    \/ ConnectCancel
    \/ Disconnect
    \/ RetryItem
    \/ RemoveItem
    \/ StartButton

Spec == Init /\ [][Next]_vars

\* The queue together with the timers of part_002 that outlive their call.
\* They write statusMessage only; Spec is the queue without them.
TimerNext ==
    \/ Next
    \/ LateProgress

SpecTimers == Init /\ [][TimerNext]_vars

\* Fairness: a scheduled render is committed, a content read and an
\* extraction call settle, and the pacing timer fires.
EngineFairness ==
    /\ WF_vars(Render)
    /\ WF_vars(ContentOk \/ ContentFail)
    /\ WF_vars(AnalyzeOk \/ AnalyzeFail)
    /\ WF_vars(PaceEnd)

FairSpec == Spec /\ EngineFairness

\* --------------------------------------- draining a queue of idle items
Files == DriveFiles \cup LocalNames

\* Queues of up to MaxItems files; a drive file is listed once.
DrainQueues ==
    {q \in UNION {[1..n -> Files] : n \in 0..MaxItems} :
        \A i, j \in DOMAIN q : (i # j /\ q[i] = q[j]) => q[i] \in LocalNames}

DrainItems(a, q) ==
    [k \in DOMAIN q |->
        IF q[k] \in DriveFiles
        THEN BatchItem(IF a = "src" THEN FreshId(k) ELSE q[k], q[k], q[k], {})
        ELSE BatchItem(FreshId(k), None, q[k], {})]

\* N idle items were just queued (their render is pending); nothing else
\* is in flight and nothing is inserted afterwards.
DrainInit ==
    /\ app \in {"src", "root"}
    /\ engineActive = FALSE
    /\ \E q \in DrainQueues : items = DrainItems(app, q)
    /\ itemsRef = <<>>
    /\ dirty = (items # <<>>)
    /\ processingId = None
    /\ pc = "off"
    /\ next = NoItem
    /\ mustRender = FALSE
    /\ connecting = "none"
    /\ startVisible = FALSE
    /\ nextId = MaxItems + 1
    /\ ops = 0
    /\ loops = 0
    /\ rejected = FALSE
    /\ base64 = "none"
    /\ sourceConfig = "none"
    /\ imports = <<>>
    /\ MapperIdle
    /\ ClientIdle
    /\ MergeIdle
    /\ IdIdle

\* The extraction client always succeeds: no AnalyzeFail.
DrainNext ==
    \/ Render
    \/ ContentOk
    \/ ContentFail
    \/ Progress
    \/ AnalyzeOk
    \/ PaceEnd

SpecDrain ==
    /\ DrainInit
    /\ [][DrainNext]_vars
    /\ WF_vars(Render)
    /\ WF_vars(ContentOk \/ ContentFail)
    /\ WF_vars(AnalyzeOk)
    /\ WF_vars(PaceEnd)

\* ------------------------------------- the result mapping, step by step
Routings == {"forward_to_ayr", "forward_to_oz", "unknown", "missing"}
AutoActions == {"batch_tag_forward", "archive_digital", "human_review_queue", "missing"}
Importances == {"CRITICAL_FORWARD", "HIGH_FORWARD", "ROUTINE_OPTIONAL", "DIGITAL_ONLY", "missing"}

RawRecords ==
    {RawRecord(r, a, i, u) : r \in Routings, a \in AutoActions, i \in Importances, u \in BOOLEAN}

QueueIdle ==
    /\ app = "src"
    /\ items = <<>>
    /\ itemsRef = <<>>
    /\ dirty = FALSE
    /\ processingId = None
    /\ engineActive = FALSE
    /\ pc = "off"
    /\ next = NoItem
    /\ mustRender = FALSE
    /\ connecting = "none"
    /\ startVisible = FALSE
    /\ nextId = 0
    /\ ops = 0
    /\ loops = 0
    /\ rejected = FALSE
    /\ base64 = "none"
    /\ sourceConfig = "none"
    /\ imports = <<>>
    /\ MergeIdle

MapperInit ==
    /\ QueueIdle
    /\ IdIdle
    /\ svc \in {"v1", "v2"}
    /\ rec \in RawRecords
    /\ mpc = "start"
    /\ classification = TBC
    /\ preOverride = TBC
    /\ ClientIdle

\* part_002 lines 142-149: result.routing may be rewritten before the chain.
MapRouting ==
    /\ mpc = "start"
    /\ mpc' = "routed"
    /\ rec' = [rec EXCEPT !.routing = FallbackRouting(svc, rec)]
    /\ UNCHANGED <<svc, classification, preOverride>>
    /\ UNCHANGED appVars
    /\ UNCHANGED clientVars

\* The if / else-if chain assigns `classification`.
MapLadder ==
    /\ mpc = "routed"
    /\ mpc' = "laddered"
    /\ classification' = Ladder(rec.routing, rec.auto_action, rec.importance)
    /\ preOverride' = classification'
    /\ UNCHANGED <<svc, rec>>
    /\ UNCHANGED appVars
    /\ UNCHANGED clientVars

\* The importance override reassigns `classification`.
MapOverride ==
    /\ mpc = "laddered"
    /\ mpc' = "done"
    /\ classification' = Override(rec.importance, classification)
    /\ UNCHANGED <<svc, rec, preOverride>>
    /\ UNCHANGED appVars
    /\ UNCHANGED clientVars

MapperNext ==
    \/ MapRouting
    \/ MapLadder
    \/ MapOverride

SpecMapper == MapperInit /\ [][MapperNext]_vars

\* ------------------- routing as the request's SYSTEM_INSTRUCTION states it
\* Delivery addresses and recipient names of the documents sent.
Addresses ==
    {"Flat 5 Old School Court, London N17 6LY", "10 Uist Wynd, Ayr KA7 4GF",
     "1 High Street, Leeds", ""}

Recipients == {"Arvind Dougall", "Nishant Dougall", "J Smith", ""}

\* ADDRESS OVERRIDE: the two address sets of the instruction.
AddressRoute(address) ==
    IF address = "Flat 5 Old School Court, London N17 6LY" THEN "forward_to_oz"
    ELSE IF address = "10 Uist Wynd, Ayr KA7 4GF" THEN "forward_to_ayr"
    ELSE "unknown"

\* NAME FALLBACK: the names of the instruction.
NameRoute(name) ==
    IF name = "Arvind Dougall" THEN "forward_to_ayr"
    ELSE IF name = "Nishant Dougall" THEN "forward_to_oz"
    ELSE "unknown"

\* URGENCY FALLBACK (part_002 only) and DEFAULT.
UrgencyRoute(v, importance, urgentDoc) ==
    IF v = "v2" /\ importance \in {"HIGH_FORWARD", "CRITICAL_FORWARD"} /\ urgentDoc
    THEN "forward_to_ayr"
    ELSE "unknown"

\* Variant of the rules that reads the recipient name before the address.
InstructedRoutingNameFirst(v, address, name, importance, urgentDoc) ==
    IF NameRoute(name) # "unknown" THEN NameRoute(name)
    ELSE IF AddressRoute(address) # "unknown" THEN AddressRoute(address)
    ELSE UrgencyRoute(v, importance, urgentDoc)

\* ROUTING LOGIC (STRICT): rules 1 to 4 in their order.
InstructedRouting(v, address, name, importance, urgentDoc) ==
    IF AddressRoute(address) # "unknown" THEN AddressRoute(address)
    ELSE IF NameRoute(name) # "unknown" THEN NameRoute(name)
    ELSE UrgencyRoute(v, importance, urgentDoc)

\* A result of a service that follows the instruction sent with the request;
\* delivery_address and recipient_name are fields of the result.
ServiceRecords(v) ==
    {RawRecord(InstructedRouting(v, a, n, i, u), act, i, u)
        @@ [delivery_address |-> a, recipient_name |-> n] :
     a \in Addresses, n \in Recipients, act \in AutoActions,
     i \in Importances, u \in BOOLEAN}

RoutingInit ==
    /\ QueueIdle
    /\ IdIdle
    /\ ClientIdle
    /\ svc \in {"v1", "v2"}
    /\ rec \in ServiceRecords(svc)
    /\ mpc = "start"
    /\ classification = TBC
    /\ preOverride = TBC

SpecRouting == RoutingInit /\ [][MapperNext]_vars

\* ------------------------------------------ analyzeMailItem, one call
ClientInit ==
    /\ QueueIdle
    /\ IdIdle
    /\ svc \in {"v1", "v2"}
    /\ mpc = "idle"
    /\ rec = RawRecord("missing", "missing", "missing", FALSE)
    /\ classification = TBC
    /\ preOverride = TBC
    /\ mime \in Mimes
    /\ cpc = "check"
    /\ attempt = 0
    /\ ncalls = 0
    /\ sleeps = <<>>
    /\ fails = <<>>
    /\ timers = 0
    /\ outcome = "none"

ClientNext ==
    \/ CheckMime
    \/ CallOk
    \/ CallFail
    \/ Backoff

SpecClient == ClientInit /\ [][ClientNext]_vars

\* ================================================================ properties
Analyzing(its) == {k \in Idx(its) : its[k].status = ANALYZING}

AllTerminal(its) == \A k \in Idx(its) : Terminal(its[k].status)

\* C1: in every reachable state at most one item of the queue has status
\* analyzing.
AtMostOneAnalyzing == Cardinality(Analyzing(items)) <= 1

\* C2: a call of startEngine while the active flag is set (only the Start
\* Processing button can make one; the trigger effect tests the flag first)
\* selects and modifies nothing, and never more than one loop executes.
SingleFlight ==
    /\ [][(engineActive /\ StartButton) =>
            UNCHANGED <<items, itemsRef, dirty, processingId, engineActive,
                        pc, next, loops>>]_vars
    /\ [](loops <= 1)

\* A rejected call has happened while a loop is suspended at the service call.
SingleFlightWitness == rejected /\ engineActive /\ pc = "analyze" /\ loops = 1

\* C3: with fair renders, reads, service calls and timers, every id that is
\* idle in the queue is later absent from the queue or terminal.
ItemIds == DriveFiles \cup {FreshId(n) : n \in 0..(2 * MaxOps)}

IdleAt(id) == \E k \in Idx(items) : items[k].id = id /\ items[k].status = IDLE

SettledAt(id) == \A k \in Idx(items) : items[k].id = id => Terminal(items[k].status)

IdleEventuallyTerminal == \A id \in ItemIds : IdleAt(id) ~> SettledAt(id)

\* An item appended while the engine was active has been analyzed.
LateItemWitness ==
    \E k \in Idx(items) :
        items[k].late /\ Terminal(items[k].status) /\ items[k].runs = 1

\* C4: since it last became idle, no item was set analyzing more than once
\* and the extraction client was called for it at most once.
AnalyzedAtMostOnce ==
    \A k \in Idx(items) : items[k].runs <= 1 /\ items[k].calls <= 1

\* The engine sleeps after analyzing an item once while the snapshot still
\* shows that item as not finished.
StaleSnapshotWitness ==
    /\ pc = "pace"
    /\ \E k \in Idx(items) :
        /\ Terminal(items[k].status)
        /\ items[k].runs = 1
        /\ items[k].calls = 1
        /\ k \in Idx(itemsRef)
        /\ itemsRef[k].id = items[k].id
        /\ ~Terminal(itemsRef[k].status)

\* C5: from N idle items, without insertions and with a service that always
\* succeeds, whenever the loop has run and is off every item is terminal,
\* and the run ends in that state for good.
Drained == ~engineActive /\ processingId = None /\ pc = "off" /\ AllTerminal(items)

QueueDrains ==
    /\ []((~engineActive /\ \E k \in Idx(items) : items[k].runs > 0)
            => (processingId = None /\ AllTerminal(items)))
    /\ <>[]Drained

DrainedWitness ==
    /\ Drained
    /\ Len(items) = MaxItems
    /\ \E k \in Idx(items) : items[k].status = SUCCESS
    /\ \E k \in Idx(items) : items[k].status = ERROR

\* C6: every selection picks the first idle item of the queue, so an item
\* appended during an analysis is picked only when none of the items that
\* were idle at that time is still idle.
Selects == next = NoItem /\ next' # NoItem

SelectsFirstIdle ==
    [][Selects =>
        /\ next' = FindIdle(items)
        /\ \A k \in Idx(items) :
             (items[k].id = next'.id /\ items[k].status = IDLE) => items[k].ahead = {}]_vars

\* C7: an item's status changes only idle -> analyzing, analyzing ->
\* success | needs_manual_review | error, and error -> idle, the last only
\* by the Retry Item button.
AllowedStep(a, b) ==
    \/ a = b
    \/ a = IDLE /\ b = ANALYZING
    \/ a = ANALYZING /\ Terminal(b)
    \/ a = ERROR /\ b = IDLE /\ RetryItem

SameQueue ==
    /\ Len(items') = Len(items)
    /\ \A k \in Idx(items) : items'[k].id = items[k].id

OnlyAllowedTransitions ==
    [][SameQueue => \A k \in Idx(items) : AllowedStep(items[k].status, items'[k].status)]_vars

Forwarding == {FORWARD_AYR, FORWARD_OZ}

EscalationLaw ==
    mpc = "done" =>
        IF rec.importance \in {"CRITICAL_FORWARD", "HIGH_FORWARD"}
        THEN IF preOverride \in Forwarding
             THEN classification = preOverride
             ELSE classification = DIGITAL_STORE_ACTION
        ELSE classification = preOverride

EscalationWitness ==
    /\ mpc = "done"
    /\ rec.importance = "CRITICAL_FORWARD"
    /\ preOverride = DIGITAL_STORE
    /\ classification = DIGITAL_STORE_ACTION

\* C10: the class before the override is that of the first matching rule:
\* routing forward_to_ayr, routing forward_to_oz, auto_action
\* archive_digital, importance DIGITAL_ONLY, otherwise TBC.
LadderFirstMatch ==
    mpc \in {"laddered", "done"} =>
        LET r1 == rec.routing = "forward_to_ayr"
            r2 == rec.routing = "forward_to_oz"
            r3 == rec.auto_action = "archive_digital"
            r4 == rec.importance = "DIGITAL_ONLY"
        IN /\ r1 => preOverride = FORWARD_AYR
           /\ (~r1 /\ r2) => preOverride = FORWARD_OZ
           /\ (~r1 /\ ~r2 /\ r3) => preOverride = DIGITAL_STORE
           /\ (~r1 /\ ~r2 /\ ~r3 /\ r4) => preOverride = SHRED
           /\ (~r1 /\ ~r2 /\ ~r3 /\ ~r4) => preOverride = TBC

\* Two rules match and the earlier one decides.
LadderWitness ==
    /\ mpc = "laddered"
    /\ rec.routing = "forward_to_oz"
    /\ rec.auto_action = "archive_digital"
    /\ rec.importance = "DIGITAL_ONLY"
    /\ preOverride = FORWARD_OZ

\* ------------------------------------- import runs over a fixed listing
\* The listing the storage source returns: drive file ids, or the names of
\* a local directory (part_000 only).
MergeListings ==
    {[kind |-> "drive", files |-> f] : f \in {<<>>, <<1>>, <<1, 2>>, <<2, 1>>}}
        \cup {[kind |-> "local", files |-> f] : f \in {<<7>>, <<8, 7>>}}

\* An item that was analyzed before the runs.
DoneItem(id, drive, name) ==
    [BatchItem(id, drive, name, {}) EXCEPT
        !.status = SUCCESS, !.hasRes = TRUE, !.res = <<FORWARD_AYR>>,
        !.runs = 1, !.calls = 1]

MergeQueues(a) ==
    {<<>>,
     <<DoneItem(IF a = "src" THEN FreshId(0) ELSE 1, 1, 1)>>,
     <<DoneItem(FreshId(0), None, 7)>>}

MergeInit ==
    /\ app \in {"src", "root"}
    /\ engineActive = FALSE
    /\ sourceListing \in MergeListings
    /\ app = "src" => sourceListing.kind = "drive"
    /\ items \in MergeQueues(app)
    /\ itemsRef = items
    /\ dirty = FALSE
    /\ processingId = None
    /\ pc = "off"
    /\ next = NoItem
    /\ mustRender = FALSE
    /\ connecting = "none"
    /\ startVisible = FALSE
    /\ nextId = 1
    /\ ops = 0
    /\ loops = 0
    /\ rejected = FALSE
    /\ base64 = "none"
    /\ sourceConfig = sourceListing.kind
    /\ imports = <<>>
    /\ added = <<>>
    /\ MapperIdle
    /\ ClientIdle
    /\ IdIdle

\* A run starts once the previous one has finished and its items are
\* rendered: handleImportFromDrive closes over the rendered items.
MergeStart ==
    /\ imports = <<>>
    /\ Len(added) < MaxRuns
    /\ ~dirty
    /\ imports' = <<ImportRun(sourceListing.kind, DriveIds(itemsRef) \ {None}, FALSE)>>
    /\ EngineFrame
    /\ UNCHANGED <<app, items, itemsRef, dirty, sourceConfig, connecting, startVisible,
                   nextId, ops, sourceListing, added>>
    /\ UNCHANGED <<mapperVars, clientVars, idVars>>

\* The listing arrives: dedupe, build the items, append.
MergeDone ==
    /\ imports # <<>>
    /\ LET imp == imports[1]
           new == SelectNew(sourceListing.files, ExistingKeys(imp))
           add == NewItems(imp, new, AheadOf(items))
       IN /\ imports' = <<>>
          /\ IF app = "src" /\ new = <<>>
             THEN UNCHANGED <<items, dirty>>
             ELSE SetItems(items \o add)
          /\ nextId' = IF app = "src" \/ imp.kind = "local"
                       THEN nextId + Len(add) ELSE nextId
          /\ added' = Append(added, Len(add))
    /\ EngineFrame
    /\ UNCHANGED <<app, itemsRef, sourceConfig, connecting, startVisible, ops,
                   sourceListing>>
    /\ UNCHANGED <<mapperVars, clientVars, idVars>>

MergeNext ==
    \/ MergeStart
    \/ MergeDone
    \/ Render
    \/ ContentOk
    \/ ContentFail
    \/ Progress
    \/ AnalyzeOk
    \/ AnalyzeFail
    \/ PaceEnd

SpecMerge == MergeInit /\ [][MergeNext]_vars

\* ------------------- the map callback of part_002 applied to one result
ReconcileRecords ==
    {RawRecord("unknown", "human_review_queue", "HIGH_FORWARD", TRUE),
     RawRecord("unknown", "archive_digital", "DIGITAL_ONLY", FALSE),
     RawRecord("forward_to_oz", "batch_tag_forward", "ROUTINE_OPTIONAL", FALSE)}

ReconcileInit ==
    /\ QueueIdle
    /\ ClientIdle
    /\ svc = "v2"
    /\ rec \in ReconcileRecords
    /\ mpc = "start"
    /\ classification = TBC
    /\ preOverride = TBC
    /\ fname \in Fnames
    /\ postboxRef \in Refs
    /\ doc \in Docs
    /\ ipc = "start"
    /\ cleanRef = NoId
    /\ itemId = NoId
    /\ suggested = <<>>
    /\ pass = 1
    /\ first = <<>>

IdFrame == UNCHANGED <<queueVars, mergeVars, mapperVars, clientVars, fname, postboxRef, doc, pass, first>>

\* const suggestedFilename = ...
FileName ==
    /\ mpc = "done"
    /\ ipc = "start"
    /\ ipc' = "named"
    /\ suggested' = SuggestedFilename(doc)
    /\ UNCHANGED <<cleanRef, itemId>>
    /\ IdFrame

\* 1. Sanitize the AI's output
IdSanitize ==
    /\ ipc = "named"
    /\ ipc' = "sanitized"
    /\ cleanRef' = Sanitize(postboxRef)
    /\ UNCHANGED <<itemId, suggested>>
    /\ IdFrame

\* 2. Metadata Fallback
IdFromFile ==
    /\ ipc = "sanitized"
    /\ ipc' = "filed"
    /\ cleanRef' = FromFilename(fname, cleanRef)
    /\ UNCHANGED <<itemId, suggested>>
    /\ IdFrame

\* 3. const finalItemId = cleanRef || `GEN-${Math.random()...}`
IdFinal ==
    /\ ipc = "filed"
    /\ ipc' = "done"
    /\ IF cleanRef # NoId
       THEN itemId' = cleanRef
       ELSE \E t \in GenTokens : itemId' = IdText("gen", t, 0, 6, FALSE)
    /\ UNCHANGED <<cleanRef, suggested>>
    /\ IdFrame

\* The callback is applied once more, to the same result object (the first
\* application's assignment to result.routing is still in place) or to a
\* fresh copy of the record it was given.
Again ==
    /\ ipc = "done"
    /\ pass = 1
    /\ pass' = 2
    /\ rec' \in {rec} \cup {r \in ReconcileRecords :
                               [r EXCEPT !.routing = FallbackRouting(svc, r)] = rec}
    /\ first' = <<classification, suggested, itemId>>
    /\ mpc' = "start"
    /\ ipc' = "start"
    /\ classification' = TBC
    /\ preOverride' = TBC
    /\ cleanRef' = NoId
    /\ itemId' = NoId
    /\ suggested' = <<>>
    /\ UNCHANGED <<svc, fname, postboxRef, doc>>
    /\ UNCHANGED <<queueVars, mergeVars, clientVars>>

ReconcileNext ==
    \/ MapRouting
    \/ MapLadder
    \/ MapOverride
    \/ FileName
    \/ IdSanitize
    \/ IdFromFile
    \/ IdFinal
    \/ Again

SpecReconcile == ReconcileInit /\ [][ReconcileNext]_vars

\* ================================================================ claims

\* C11: a failed attempt is followed by a backoff sleep and another attempt
\* exactly when the failure is rate limiting (429) or a 5xx status and
\* fewer than the maximum number of attempts were made; every other failed
\* attempt ends the call with an error; after the end no service call is
\* made, and a call never makes more than the maximum number of attempts.
RateLimited(f) == f.status = 429 \/ f.rateMsg

ServerError(f) == f.status >= 500 /\ f.status <= 599

AttemptFails == ncalls' = ncalls + 1 /\ Len(fails') = Len(fails) + 1

RetryLaw ==
    /\ [][AttemptFails =>
            LET f == fails'[Len(fails')] IN
            /\ (cpc' = "sleep") <=>
                 ((RateLimited(f) \/ ServerError(f)) /\ ncalls' < MaxRetries(svc))
            /\ cpc' # "sleep" => (cpc' = "done" /\ outcome' = "error")]_vars
    /\ [][cpc = "done" => (ncalls' = ncalls /\ cpc' = "done")]_vars
    /\ [](ncalls <= MaxRetries(svc))

\* C12: when the service fails with 429 on attempts 1..k, k below the
\* maximum, the call has not given up, and when attempt k+1 then succeeds
\* the call returns the result with exactly k backoff sleeps, k+1 service
\* calls and sleep durations that never decrease.
All429 == \A i \in 1..Len(fails) : fails[i].status = 429

NonDecreasing(q) == \A i \in 1..(Len(q) - 1) : q[i] <= q[i + 1]

RetryThenSuccess ==
    /\ (ncalls > 0 /\ All429 /\ Len(fails) < MaxRetries(svc)) => outcome # "error"
    /\ (cpc = "done" /\ outcome = "ok" /\ All429) =>
         /\ Len(sleeps) = Len(fails)
         /\ ncalls = Len(fails) + 1
         /\ NonDecreasing(sleeps)

\* Five 429 failures, then success on the sixth and last attempt; the first
\* sleep drew the largest jitter and the second the smallest.
RetryThenSuccessWitness ==
    /\ cpc = "done"
    /\ outcome = "ok"
    /\ svc = "v1"
    /\ All429
    /\ Len(fails) = MaxRetries(svc) - 1
    /\ Len(sleeps) = MaxRetries(svc) - 1
    /\ sleeps[1] = 2999
    /\ sleeps[2] = 4000

\* C13: an import run that follows a finished and rendered run over the
\* same listing appends no item.
SecondRunAddsNothing == \A i \in 2..Len(added) : added[i] = 0

\* The first run appended both files of the listing, the second none.
SecondRunWitness ==
    /\ Len(added) = 2
    /\ added[1] = 2
    /\ added[2] = 0
    /\ Len(items) >= 2

\* C14: an import run leaves the items already queued as they are and in
\* place, and appends the new items behind them in the order of the listing.
RunEnds == Len(added') = Len(added) + 1

KeyOf(i) == IF sourceListing.kind = "drive" THEN i.drive ELSE i.name

RECURSIVE Keep(_, _)
Keep(files, S) ==
    IF files = <<>> THEN <<>>
    ELSE IF Head(files) \in S THEN <<Head(files)>> \o Keep(Tail(files), S)
         ELSE Keep(Tail(files), S)

ImportAppends ==
    [][RunEnds =>
        /\ Len(items') >= Len(items)
        /\ SubSeq(items', 1, Len(items)) = items
        /\ LET suffix == SubSeq(items', Len(items) + 1, Len(items'))
               keys == [k \in 1..Len(suffix) |-> KeyOf(suffix[k])]
           IN /\ keys = Keep(sourceListing.files, {keys[k] : k \in 1..Len(keys)})
              /\ \A k \in 1..Len(suffix) : suffix[k].status = IDLE]_vars

\* Two files were appended, in listing order 2, 1, behind an item that was
\* queued before the run.
ImportAppendsWitness ==
    /\ Len(added) = 1
    /\ added[1] = 2
    /\ Len(items) = 3
    /\ items[1].runs = 1
    /\ items[2].drive = 2
    /\ items[3].drive = 1

\* C15: when the file name holds a digit run of 5 to 9 digits, the item id
\* is the first such run that has 5 to 7 digits, or without one the first
\* such run, whatever the reference of the service is.
RECURSIVE WholeRunsFrom(_, _)
WholeRunsFrom(name, i) ==
    IF i > Len(name) THEN <<>>
    ELSE (IF name[i] >= 5 /\ name[i] <= 9
          THEN <<IdText("file", i, 0, name[i], FALSE)>> ELSE <<>>)
         \o WholeRunsFrom(name, i + 1)

WholeRuns(name) == WholeRunsFrom(name, 1)

IsShort(c) == c.len <= 7

PreferredRun(name) ==
    IF SelectSeq(WholeRuns(name), IsShort) # <<>>
    THEN SelectSeq(WholeRuns(name), IsShort)[1]
    ELSE WholeRuns(name)[1]

FilenameIdLaw ==
    (ipc = "done" /\ WholeRuns(fname) # <<>>) => itemId = PreferredRun(fname)


\* C16: applying the result mapping twice to the same raw record and file
\* name gives the same classification and the same suggestedFilename both
\* times, and the same item id both times unless the id is a generated one
\* (which happens in both applications or in neither).
SecondPassDone == pass = 2 /\ ipc = "done"

Generated(id) == id.from = "gen"

GeneratedIdsDiffer ==
    /\ SecondPassDone
    /\ Generated(itemId)
    /\ first[3] # itemId

\* C17: the routing of a mapped record is the address route when the delivery
\* address matches, else the name route when the recipient name matches,
\* else forward_to_ayr by the urgency fallback or unknown; the program's
\* fallback rewrites the routing only when it is unknown, the importance is
\* HIGH or CRITICAL and the document type holds one of the keywords, so it
\* never changes a routing that the address or the name resolved.
Urgent(r) == r.importance \in {"HIGH_FORWARD", "CRITICAL_FORWARD"} /\ r.urgentDoc

Routed == mpc \in {"routed", "laddered", "done"}

PrecedenceHolds ==
    Routed =>
        LET a == AddressRoute(rec.delivery_address)
            n == NameRoute(rec.recipient_name)
        IN /\ a # "unknown" => rec.routing = a
           /\ (a = "unknown" /\ n # "unknown") => rec.routing = n
           /\ (a = "unknown" /\ n = "unknown") =>
                 /\ rec.routing \in {"unknown", "forward_to_ayr"}
                 /\ rec.routing = "forward_to_ayr" => Urgent(rec)

FallbackOnlyUnresolved ==
    rec'.routing # rec.routing =>
        /\ rec.routing = "unknown"
        /\ AddressRoute(rec.delivery_address) = "unknown"
        /\ NameRoute(rec.recipient_name) = "unknown"
        /\ Urgent(rec)
        /\ rec'.routing = "forward_to_ayr"

DigitalOnlyUnknown ==
    mpc = "done" /\ rec.importance = "DIGITAL_ONLY" /\ rec.routing = "unknown"

DigitalOnlyShred == DigitalOnlyUnknown => classification = SHRED

\* C18 as amended: such a record is classified Shred unless its auto_action
\* is archive_digital, and then it is classified Digital Store.
DigitalOnlyShredUnlessArchived ==
    DigitalOnlyUnknown =>
        classification = (IF rec.auto_action = "archive_digital"
                          THEN DIGITAL_STORE ELSE SHRED)

DigitalOnlyShredWitness ==
    /\ DigitalOnlyUnknown
    /\ rec.auto_action = "human_review_queue"
    /\ rec.urgentDoc
    /\ classification = SHRED

\* C19: a call whose mime type is not in the allow-list (the empty and the
\* blank one included) ends with an error before the service is called, with
\* no retry and no backoff sleep.
InAllowList(m) == m # "" /\ Lower(m) \in SupportedMimes

MimeRejectedEarly ==
    (cpc # "check" /\ ~InAllowList(mime)) =>
        /\ cpc = "done"
        /\ outcome = "error"
        /\ ncalls = 0
        /\ attempt = 0
        /\ sleeps = <<>>

\* C20: an item whose analysis succeeded has status needs_manual_review
\* exactly when one of its results is classified TBC (cannot determine), and
\* status success otherwise.
HasTBC(results) == \E k \in 1..Len(results) : results[k] = TBC

Succeeded(i) == i.hasRes /\ i.status \in {SUCCESS, NEEDS_REVIEW}

ReviewIffUndetermined ==
    \A k \in Idx(items) :
        Succeeded(items[k]) => (items[k].status = NEEDS_REVIEW <=> HasTBC(items[k].res))

\* C21: in every reachable state an item whose status is terminal (success,
\* needs_manual_review or error) has no statusMessage.
TerminalHasNoMessage ==
    \A k \in Idx(items) : Terminal(items[k].status) => items[k].msg = "none"

\* C27: when an analyze call has returned or thrown, and during each backoff
\* sleep before a retry, no progress timer of the call is still set, so the
\* progress callback is not invoked after the call.
TimersStopped == cpc \in {"sleep", "done"} => timers = 0

\* C22: when the content read of the item being analyzed ends, then unless it
\* resolved to non-empty content the item is failed with an error message,
\* the extraction client is not called for it, the read is not tried again,
\* and the loop goes on (to its pacing sleep and the next idle item).
ResolveEnds == pc = "fetch" /\ pc' # "fetch"

FailedUncalled(i) == i.status = ERROR /\ i.err # "none" /\ i.calls = 0

ContentFailureStep ==
    ResolveEnds =>
        IF base64' = "bytes"
        THEN pc' = "analyze"
        ELSE /\ pc' = "pace"
             /\ engineActive'
             /\ \A k \in Idx(items') : items'[k].id = next.id => FailedUncalled(items'[k])

ContentFailureLaw == [][ContentFailureStep]_vars

\* C23: the step that finishes an item (status written after the content
\* read or the extraction call) starts the pacing sleep, and an item is
\* selected only when a pacing sleep has ended or a loop starts, so a
\* pacing sleep lies between any two analyses.
Working == {"fetch", "analyze"}

FinishStep == pc \in Working /\ pc' \notin Working

SelectStep == pc' = "fetch" /\ pc # "fetch"

PacingStep ==
    /\ FinishStep => pc' = "pace"
    /\ SelectStep => pc \in {"pace", "off"}

PacingLaw == [][PacingStep]_vars

\* A second item is being read after the first one failed in its read.
PacingWitness ==
    /\ pc = "fetch"
    /\ \E k \in Idx(items) :
         /\ items[k].id # next.id
         /\ items[k].status = ERROR
         /\ items[k].runs = 1
         /\ items[k].calls = 0

\* C24: a step of a user action or of an import (a click, the arrival of a
\* listing, the end of a folder pick) leaves every item whose status is
\* analyzing in the queue, with the fields it had.
UserStep == ops' # ops \/ imports' # imports \/ connecting' # connecting

Fields(i) ==
    [id |-> i.id, drive |-> i.drive, name |-> i.name, status |-> i.status,
     msg |-> i.msg, hasRes |-> i.hasRes, res |-> i.res, err |-> i.err]

AnalyzingKept ==
    \A k \in Idx(items) :
        items[k].status = ANALYZING =>
            \E j \in Idx(items') : Fields(items'[j]) = Fields(items[k])

OnlyEngineWritesAnalyzing == [][UserStep => AnalyzingKept]_vars

\* C25: when the file name has no candidate and the reference holds digits
\* and whitespace only, the item id is the reference with the whitespace
\* taken out if 4 to 9 digits remain, and otherwise the reference is not
\* taken as the id.
DigitsOnly(r) == r.kind \in {"number", "digits"}

NoCandidate == Candidates(fname) = <<>>

RefAcceptance ==
    (ipc = "done" /\ NoCandidate /\ DigitsOnly(postboxRef)) =>
        IF postboxRef.len >= 4 /\ postboxRef.len <= 9
        THEN itemId = IdText("ref", 0, 0, postboxRef.len, FALSE)
        ELSE itemId.from # "ref"

\* C26: the final id of a record starts with "GEN-" exactly when the id was
\* synthesized, and it is synthesized exactly when the reference was absent
\* (missing, not a string, or one of the absent tokens) and the file name
\* gave no candidate of 5 to 9 digits; an id taken from the reference or
\* from the file name never starts with "GEN-".
HasGenPrefix ==
    \/ itemId.from = "gen"
    \/ itemId.from = "ref" /\ postboxRef.kind = "gentext"

RefAbsent(r) == r.kind \in {"missing", "object", "number", "token"}

GenPrefixLaw ==
    ipc = "done" =>
        /\ HasGenPrefix <=> Generated(itemId)
        /\ Generated(itemId) <=> (RefAbsent(postboxRef) /\ NoCandidate)

\* C30: an id taken from the file name is always a whole maximal digit run
\* of the name, never a part of a longer run.
FromFile(id) == id.from = "file"

WholeRun(name, id) == id.off = 0 /\ id.len = name[id.run]

FileIdIsWholeRun ==
    (ipc = "done" /\ FromFile(itemId)) => WholeRun(fname, itemId)

\* C28: the queue never holds two work items with the same remote file id,
\* whatever imports overlap.
SameRemote(a, b) == a.drive # None /\ a.drive = b.drive

NoDuplicateRemote ==
    \A j \in Idx(items) : \A k \in Idx(items) :
        j # k => ~SameRemote(items[j], items[k])

\* C29: when the listing requested by a connect (queue reset, then the
\* import) arrives and is merged, every file of the listing is in the
\* queue, the files that were queued before the reset included.
FilesQueued(imp, listing, its) ==
    \A n \in 1..Len(listing) :
        listing[n] \in (IF imp.kind = "drive" THEN DriveIds(its) ELSE Names(its))

ConnectQueuesListing ==
    [][\A k \in 1..Len(imports) : \A listing \in ListingsOf(imports[k]) :
          (imports[k].reset /\ ListingArrives(k, listing))
              => FilesQueued(imports[k], listing, items')]_vars
====
